---- MODULE Spec2Model ----
(***************************************************************************)
(* Never-alone code review evaluation:                                     *)
(* .github/actions/code-review/main.py, evaluate_attestation and           *)
(* evaluate_all.                                                           *)
(*                                                                         *)
(* Python dicts are records whose DOMAIN is the set of keys present, so    *)
(* `"k" in d` is "k" \in DOMAIN d and d.get("k", default) is Get.          *)
(* Usernames are sequences of one-character strings so that str.strip()    *)
(* is computed; every other text is a string.  A dict keeping insertion    *)
(* order (the argument of evaluate_all) is a sequence of <<key, value>>    *)
(* items with pairwise distinct keys.                                      *)
(***************************************************************************)
EXTENDS Naturals, Sequences, FiniteSets, TLC

VARIABLES pc, commit_hash, attestation, result, raised, pr_index,
          data, results, invoked

\* The arguments of a call of evaluate_attestation as the caller passed
\* them; commit_hash and attestation are the same objects after the call
VARIABLES passed

\* A run of main(): the position in it, the git commands issued, the commit
\* range, the two files written, what was printed and echoed, the exit
\* status, the cause of a fatal error, the requests attempted, the handle of
\* the evidence file, the attestation_data posted, the steps begun and the
\* steps completed, and how report_code_review_attestations is being left
VARIABLES mpc, git, commit_list, files, printed, echoed, exit_status,
          failure, attempts, handle, reported, steps, done, pending

callVars == <<pc, commit_hash, attestation, result, pr_index, passed>>

mainVars == <<mpc, git, commit_list, files, printed, echoed, exit_status,
              failure, attempts, handle, reported, steps, done, pending>>

vars == <<pc, commit_hash, attestation, result, raised, pr_index,
          data, results, invoked, passed, mainVars>>

-----------------------------------------------------------------------------
(* Bounds of the input space.                                              *)

MaxPRs == 2
MaxApprovers == 2
MaxCommits == 2
MaxData == 2
MaxAttestations == 2

-----------------------------------------------------------------------------
(* Python values.                                                          *)

\* None as a text value (attestation_type, attestation_url)
None == "null"

\* None as an author_username (never equal to a username, which is a
\* sequence of single characters)
NoneName == <<"null">>

\* d.get(k, default)
Get(d, k, default) == IF k \in DOMAIN d THEN d[k] ELSE default

\* Str leaving None as it is
Str_unconverted(x) == x

\* str(x) inside an f-string
Str(x) == IF x = None THEN "None" ELSE x

Whitespace == {" ", "\t", "\n"}

RECURSIVE lstrip(_)
lstrip(s) ==
    IF s # <<>> /\ Head(s) \in Whitespace THEN lstrip(Tail(s)) ELSE s

RECURSIVE rstrip(_)
rstrip(s) ==
    IF s # <<>> /\ s[Len(s)] \in Whitespace
    THEN rstrip(SubSeq(s, 1, Len(s) - 1))
    ELSE s

\* str.strip()
strip(s) == rstrip(lstrip(s))

\* x in list
In(x, list) == \E i \in DOMAIN list : list[i] = x

-----------------------------------------------------------------------------
(* evaluate_attestation                                                    *)

OverrideCompliant == "Overridden as compliant"
OverrideNonCompliant == "Overridden as non-compliant"
NoPullRequests == "No pull requests in attestation"
NoApprovers == "Pull request has no approvers"
OnlyApproverIsCommitter == "The only approver of the PR is also a committer"
NeverAlone == "Pull request demonstrates never-alone code review"
NotPullRequest(att_type) ==
    "Attestation is " \o Str(att_type)
        \o ", not a pull request or pull-request override"

\* approver_usernames without the strip()
approver_usernames_unstripped(approvers) ==
    { approvers[i]["username"] :
        i \in { j \in DOMAIN approvers : "username" \in DOMAIN approvers[j] } }

\* {a["username"].strip() for a in approvers if "username" in a}
approver_usernames(approvers) ==
    { strip(approvers[i]["username"]) :
        i \in { j \in DOMAIN approvers : "username" \in DOMAIN approvers[j] } }

\* [c.get("author_username") for c in commits]
commit_authors(commits) ==
    [ i \in DOMAIN commits |-> Get(commits[i], "author_username", NoneName) ]

\* check_pr requiring of ALL approvers that they are not commit authors,
\* however many they are
check_pr_all_approvers(pr) ==
    LET approvers == Get(pr, "approvers", <<>>)
        commits == Get(pr, "commits", <<>>)
        usernames == approver_usernames(approvers)
    IN  IF approvers = <<>> THEN NoApprovers
        ELSE IF usernames = {} THEN "IndexError"
        ELSE IF \A u \in usernames : ~In(u, commit_authors(commits))
        THEN "continue"
        ELSE OnlyApproverIsCommitter

\* check_pr_outcomes letting a pull request without approvers key pass
check_pr_outcomes_absent_passes(pr) ==
    LET approvers == Get(pr, "approvers", <<>>)
        commits == Get(pr, "commits", <<>>)
        usernames == approver_usernames(approvers)
    IN  IF "approvers" \notin DOMAIN pr THEN {"continue"}
        ELSE IF approvers = <<>> THEN {NoApprovers}
        ELSE IF Cardinality(usernames) >= 2 THEN {"continue"}
        ELSE IF usernames = {} THEN {"IndexError"}
        ELSE { IF ~In(strip(first), commit_authors(commits))
               THEN "continue"
               ELSE OnlyApproverIsCommitter : first \in usernames }

\* check_pr_outcomes going on to the sole-approver test with up to two
\* approvers
check_pr_outcomes_below_three(pr) ==
    LET approvers == Get(pr, "approvers", <<>>)
        commits == Get(pr, "commits", <<>>)
        usernames == approver_usernames(approvers)
    IN  IF approvers = <<>> THEN {NoApprovers}
        ELSE IF Cardinality(usernames) >= 3 THEN {"continue"}
        ELSE IF usernames = {} THEN {"IndexError"}
        ELSE { IF ~In(strip(first), commit_authors(commits))
               THEN "continue"
               ELSE OnlyApproverIsCommitter : first \in usernames }

\* check_pr_outcomes comparing the usernames with their case folded
\* (str.lower() on both sides)
check_pr_outcomes_casefold(pr) ==
    LET approvers == Get(pr, "approvers", <<>>)
        commits == Get(pr, "commits", <<>>)
        usernames == approver_usernames(approvers)
        lower(t) == [ k \in DOMAIN t |-> IF t[k] = "A" THEN "a" ELSE t[k] ]
        authors == [ k \in DOMAIN commits |-> lower(commit_authors(commits)[k]) ]
    IN  IF approvers = <<>> THEN {NoApprovers}
        ELSE IF Cardinality(usernames) >= 2 THEN {"continue"}
        ELSE IF usernames = {} THEN {"IndexError"}
        ELSE { IF ~In(lower(strip(first)), authors)
               THEN "continue"
               ELSE OnlyApproverIsCommitter : first \in usernames }

\* One iteration of `for pr in pull_requests`: "continue" when the loop goes
\* on to the next pull request, the reason returned when it returns, and
\* "IndexError" when approver_usernames[0] is evaluated on an empty list.
\* approver_usernames is a list made from a set: its element 0 is any
\* element of the set, so these are the outcomes over every iteration order.
check_pr_outcomes(pr) ==
    LET approvers == Get(pr, "approvers", <<>>)
        commits == Get(pr, "commits", <<>>)
        usernames == approver_usernames(approvers)
    IN  IF approvers = <<>> THEN {NoApprovers}
        ELSE IF Cardinality(usernames) >= 2 THEN {"continue"}
        ELSE IF usernames = {} THEN {"IndexError"}
        ELSE { IF ~In(strip(first), commit_authors(commits))
               THEN "continue"
               ELSE OnlyApproverIsCommitter : first \in usernames }

\* The outcome of one iteration (element 0 is taken from a list of exactly
\* one element, see C13_OrderIndependent)
check_pr(pr) == CHOOSE o \in check_pr_outcomes(pr) : TRUE

\* for_pr examining the first pull request only
RECURSIVE for_pr_first_only(_, _)
for_pr_first_only(pull_requests, i) ==
    IF i > Len(pull_requests) \/ i > 1
    THEN [exit |-> "exhausted", index |-> 0]
    ELSE LET c == check_pr(pull_requests[i])
         IN  IF c = "continue" THEN for_pr_first_only(pull_requests, i + 1)
             ELSE [exit |-> c, index |-> i]

\* for_pr examining every pull request and returning at the end for the
\* last one that fails
RECURSIVE for_pr_last_failing(_, _)
for_pr_last_failing(pull_requests, i) ==
    IF i > Len(pull_requests) THEN [exit |-> "exhausted", index |-> 0]
    ELSE LET c == check_pr(pull_requests[i])
             rest == for_pr_last_failing(pull_requests, i + 1)
         IN  IF c = "continue" \/ rest.exit # "exhausted" THEN rest
             ELSE [exit |-> c, index |-> i]

\* The loop from pull request i on: the way the loop is left and the index
\* of the pull request at which it is left (0: the sequence is exhausted).
RECURSIVE for_pr(_, _)
for_pr(pull_requests, i) ==
    IF i > Len(pull_requests) THEN [exit |-> "exhausted", index |-> 0]
    ELSE LET c == check_pr(pull_requests[i])
         IN  IF c = "continue" THEN for_pr(pull_requests, i + 1)
             ELSE [exit |-> c, index |-> i]

\* initial_result taking pr_url from the last pull request
initial_result_last_url(hash, att) ==
    LET pull_requests == Get(att, "pull_requests", <<>>)
        base == [commit |-> hash, pass |-> FALSE, reason |-> "",
                 attestation_url |-> Get(att, "html_url", "")]
        pr_url == IF pull_requests # <<>>
                  THEN Get(pull_requests[Len(pull_requests)], "url", "")
                  ELSE ""
    IN  IF pr_url # "" THEN base @@ [pr_url |-> pr_url] ELSE base

\* initial_result attaching pr_url whenever there is a pull request, an
\* empty url included
initial_result_any_url(hash, att) ==
    LET pull_requests == Get(att, "pull_requests", <<>>)
        base == [commit |-> hash, pass |-> FALSE, reason |-> "",
                 attestation_url |-> Get(att, "html_url", "")]
    IN  IF pull_requests # <<>>
        THEN base @@ [pr_url |-> Get(pull_requests[1], "url", "")]
        ELSE base

\* initial_result attaching pr_url for type "pull_request" only
initial_result_pull_request_only(hash, att) ==
    LET pull_requests == Get(att, "pull_requests", <<>>)
        base == [commit |-> hash, pass |-> FALSE, reason |-> "",
                 attestation_url |-> Get(att, "html_url", "")]
        pr_url == IF pull_requests # <<>>
                  THEN Get(pull_requests[1], "url", "")
                  ELSE ""
    IN  IF pr_url # "" /\ Get(att, "attestation_type", None) = "pull_request"
        THEN base @@ [pr_url |-> pr_url]
        ELSE base

\* initial_result reading html_url without a default
initial_result_no_default(hash, att) ==
    LET pull_requests == Get(att, "pull_requests", <<>>)
        base == [commit |-> hash, pass |-> FALSE, reason |-> "",
                 attestation_url |-> Get(att, "html_url", None)]
        pr_url == IF pull_requests # <<>>
                  THEN Get(pull_requests[1], "url", "")
                  ELSE ""
    IN  IF pr_url # "" THEN base @@ [pr_url |-> pr_url] ELSE base

\* The result dict as first built, pr_url attached
initial_result(hash, att) ==
    LET pull_requests == Get(att, "pull_requests", <<>>)
        base == [commit |-> hash, pass |-> FALSE, reason |-> "",
                 attestation_url |-> Get(att, "html_url", "")]
        pr_url == IF pull_requests # <<>>
                  THEN Get(pull_requests[1], "url", "")
                  ELSE ""
    IN  IF pr_url # "" THEN base @@ [pr_url |-> pr_url] ELSE base

\* What a call yields: the dict returned, or (raised) the dict as built when
\* the exception left the function; pr_index is the pull request at which
\* the loop was left (0: none).
Return(r) == [raised |-> FALSE, pr_index |-> 0, result |-> r]

\* evaluate_override taking every override as compliant
evaluate_override_always_compliant(r, is_compliant) ==
    Return([r EXCEPT !.pass = TRUE, !.reason = OverrideCompliant])

\* evaluate_override setting the reason of a compliant override only
evaluate_override_no_reason(r, is_compliant) ==
    IF is_compliant
    THEN Return([r EXCEPT !.pass = TRUE, !.reason = OverrideCompliant])
    ELSE Return(r)

\* if att_type == "override"
evaluate_override(r, is_compliant) ==
    IF is_compliant
    THEN Return([r EXCEPT !.pass = TRUE, !.reason = OverrideCompliant])
    ELSE Return([r EXCEPT !.reason = OverrideNonCompliant])

\* evaluate_pull_request without the test for an empty pull_requests
evaluate_pull_request_no_empty_test(r, pull_requests) ==
    LET loop == for_pr(pull_requests, 1)
    IN  IF loop.exit = "exhausted"
        THEN Return([r EXCEPT !.pass = TRUE, !.reason = NeverAlone])
        ELSE IF loop.exit = "IndexError"
        THEN [raised |-> TRUE, pr_index |-> loop.index, result |-> r]
        ELSE [raised |-> FALSE, pr_index |-> loop.index,
              result |-> [r EXCEPT !.reason = loop.exit]]

\* if att_type == "pull_request"
evaluate_pull_request(r, pull_requests) ==
    IF pull_requests = <<>> THEN Return([r EXCEPT !.reason = NoPullRequests])
    ELSE LET loop == for_pr(pull_requests, 1)
         IN  IF loop.exit = "exhausted"
             THEN Return([r EXCEPT !.pass = TRUE, !.reason = NeverAlone])
             ELSE IF loop.exit = "IndexError"
             THEN [raised |-> TRUE, pr_index |-> loop.index, result |-> r]
             ELSE [raised |-> FALSE, pr_index |-> loop.index,
                   result |-> [r EXCEPT !.reason = loop.exit]]

\* any other attestation_type
evaluate_other(r, att_type) ==
    Return([r EXCEPT !.reason = NotPullRequest(att_type)])

\* arguments_after with dict.setdefault in the place of dict.get for
\* pull_requests
arguments_after_setdefault(hash, att) ==
    [commit_hash |-> hash, attestation |-> att @@ [pull_requests |-> <<>>]]

\* The arguments after the call: the function reads the attestation with
\* dict.get, iterates over its lists and builds new lists and a new set
\* from them; no statement assigns to, or calls a mutating method of, the
\* attestation, a pull request, an approver or a commit, and the commit
\* hash is an immutable str.
arguments_after(hash, att) == [commit_hash |-> hash, attestation |-> att]

evaluate_attestation(hash, att) ==
    LET pull_requests == Get(att, "pull_requests", <<>>)
        r == initial_result(hash, att)
        att_type == Get(att, "attestation_type", None)
        is_compliant == Get(att, "is_compliant", FALSE)
    IN  IF att_type = "override" THEN evaluate_override(r, is_compliant)
        ELSE IF att_type = "pull_request"
        THEN evaluate_pull_request(r, pull_requests)
        ELSE evaluate_other(r, att_type)

-----------------------------------------------------------------------------
(* evaluate_all                                                            *)

\* NoAttestations with the default url of evaluate_attestation
NoAttestations_empty_url(hash) ==
    [commit |-> hash, pass |-> FALSE, reason |-> "No attestations found",
     attestation_url |-> ""]

NoAttestations(hash) ==
    [commit |-> hash, pass |-> FALSE, reason |-> "No attestations found",
     attestation_url |-> None]

\* for_item inserting each result at the front of the list
RECURSIVE for_item_prepend(_, _, _)
for_item_prepend(items, i, acc) ==
    IF i > Len(items)
    THEN [raised |-> FALSE, results |-> acc.results,
          invoked |-> acc.invoked]
    ELSE LET hash == items[i][1]
             attestations == items[i][2]
         IN  IF attestations = <<>>
             THEN for_item_prepend(items, i + 1,
                      [acc EXCEPT !.results = <<NoAttestations(hash)>> \o @])
             ELSE LET e == evaluate_attestation(hash, attestations[1])
                      inv == Append(acc.invoked, hash)
                  IN  IF e.raised
                      THEN [raised |-> TRUE, results |-> acc.results,
                            invoked |-> inv]
                      ELSE for_item_prepend(items, i + 1,
                               [results |-> <<e.result>> \o acc.results,
                                invoked |-> inv])

\* for_item producing no result for a key without attestations
RECURSIVE for_item_skip_empty(_, _, _)
for_item_skip_empty(items, i, acc) ==
    IF i > Len(items)
    THEN [raised |-> FALSE, results |-> acc.results,
          invoked |-> acc.invoked]
    ELSE LET hash == items[i][1]
             attestations == items[i][2]
         IN  IF attestations = <<>>
             THEN for_item_skip_empty(items, i + 1, acc)
             ELSE LET e == evaluate_attestation(hash, attestations[1])
                      inv == Append(acc.invoked, hash)
                  IN  IF e.raised
                      THEN [raised |-> TRUE, results |-> acc.results,
                            invoked |-> inv]
                      ELSE for_item_skip_empty(items, i + 1,
                               [results |-> Append(acc.results, e.result),
                                invoked |-> inv])

\* for_item evaluating the last attestation of each list
RECURSIVE for_item_last(_, _, _)
for_item_last(items, i, acc) ==
    IF i > Len(items)
    THEN [raised |-> FALSE, results |-> acc.results,
          invoked |-> acc.invoked]
    ELSE LET hash == items[i][1]
             attestations == items[i][2]
         IN  IF attestations = <<>>
             THEN for_item_last(items, i + 1,
                      [acc EXCEPT !.results = Append(@, NoAttestations(hash))])
             ELSE LET e == evaluate_attestation(hash,
                               attestations[Len(attestations)])
                      inv == Append(acc.invoked, hash)
                  IN  IF e.raised
                      THEN [raised |-> TRUE, results |-> acc.results,
                            invoked |-> inv]
                      ELSE for_item_last(items, i + 1,
                               [results |-> Append(acc.results, e.result),
                                invoked |-> inv])

\* The loop over data.items() from item i on; acc.results is the results
\* list so far and acc.invoked the commits for which evaluate_attestation
\* was called so far; an exception of evaluate_attestation leaves the
\* function.
RECURSIVE for_item(_, _, _)
for_item(items, i, acc) ==
    IF i > Len(items)
    THEN [raised |-> FALSE, results |-> acc.results,
          invoked |-> acc.invoked]
    ELSE LET hash == items[i][1]
             attestations == items[i][2]
         IN  IF attestations = <<>>
             THEN for_item(items, i + 1,
                      [acc EXCEPT !.results = Append(@, NoAttestations(hash))])
             ELSE LET e == evaluate_attestation(hash, attestations[1])
                      inv == Append(acc.invoked, hash)
                  IN  IF e.raised
                      THEN [raised |-> TRUE, results |-> acc.results,
                            invoked |-> inv]
                      ELSE for_item(items, i + 1,
                               [results |-> Append(acc.results, e.result),
                                invoked |-> inv])

evaluate_all(items) ==
    for_item(items, 1, [results |-> <<>>, invoked |-> <<>>])

-----------------------------------------------------------------------------
(* The inputs.                                                             *)

BoundedSeq(S, n) == UNION { [1..k -> S] : k \in 0..n }

Commits == {"c1", "c2", "c3"}

\* "a" with and without surrounding whitespace, and "A"
Usernames == { <<"a">>, <<" ", "a", " ">>, <<"A">> }

Authors == { <<"a">>, <<"A">> }

\* An approver entry with a username, and one without
ApproverEntries ==
    { [username |-> u] : u \in Usernames } \cup { [state |-> "APPROVED"] }

CommitEntries == { [author_username |-> u] : u \in Authors }

\* The url of the pull request at position i of an attestation
PullUrl(i) == "https://github.com/org/repo/pull/" \o ToString(i)

UrlKinds == {"absent", "empty", "url"}

\* A pull request dict at position i
PullRequest(kind, approvers, commits, i) ==
    LET body == [approvers |-> approvers, commits |-> commits]
    IN  IF kind = "absent" THEN body
        ELSE IF kind = "empty" THEN body @@ [url |-> ""]
        ELSE body @@ [url |-> PullUrl(i)]

\* Every approvers and commits list within the bounds
Reviews ==
    { <<ap, co>> : ap \in BoundedSeq(ApproverEntries, MaxApprovers),
                   co \in BoundedSeq(CommitEntries, MaxCommits) }

\* One review per way a pull request is evaluated: no approvers, an approver
\* entry without username, a sole approver who committed (after trimming),
\* a sole approver who did not, two approvers who both committed
SequenceReviews ==
    { <<<<>>, <<>>>>,
      <<<<[state |-> "APPROVED"]>>, <<[author_username |-> <<"a">>]>>>>,
      <<<<[username |-> <<" ", "a", " ">>]>>,
        <<[author_username |-> <<"a">>]>>>>,
      <<<<[username |-> <<"A">>]>>, <<[author_username |-> <<"a">>]>>>>,
      <<<<[username |-> <<"a">>], [username |-> <<"A">>]>>,
        <<[author_username |-> <<"a">>], [author_username |-> <<"A">>]>>>> }

\* Pull request dicts without the approvers key, without the commits key,
\* and without both
PartialPullRequests ==
    { [approvers |-> ap] : ap \in BoundedSeq(ApproverEntries, MaxApprovers) }
    \cup { [commits |-> co] : co \in BoundedSeq(CommitEntries, MaxCommits) }
    \cup { [url |-> PullUrl(1)] }

\* pull_requests lists: one pull request with any review within the bounds,
\* one pull request with keys absent, and up to MaxPRs pull requests with
\* the reviews of SequenceReviews
PullRequestLists ==
    { <<>> }
    \cup { <<PullRequest(k, rv[1], rv[2], 1)>> :
             k \in UrlKinds, rv \in Reviews }
    \cup { <<pr>> : pr \in PartialPullRequests }
    \cup UNION { { [ i \in 1..n |-> PullRequest(f[i][1], f[i][2][1],
                                                f[i][2][2], i) ] :
                     f \in [1..n -> UrlKinds \X SequenceReviews] } :
                 n \in 1..MaxPRs }

\* The attestation dicts: every field is present or absent
AttestationTypes ==
    { <<>> } \cup { [attestation_type |-> t] :
                      t \in {"override", "pull_request", "audit"} }

AttestationCompliants ==
    { <<>> } \cup { [is_compliant |-> b] : b \in BOOLEAN }

AttestationUrls ==
    { <<>>, [html_url |-> "https://example.com/attestation/1"] }

AttestationPullRequests ==
    { <<>> } \cup { [pull_requests |-> l] : l \in PullRequestLists }

\* The attestations of the values of data
DataAttestations ==
    { [attestation_type |-> "override", is_compliant |-> TRUE,
       html_url |-> "https://example.com/attestation/1"],
      [attestation_type |-> "pull_request",
       html_url |-> "https://example.com/attestation/2",
       pull_requests |-> <<PullRequest("url",
           <<[username |-> <<"a">>]>>, <<[author_username |-> <<"a">>]>>,
           1)>>],
      [attestation_type |-> "pull_request",
       pull_requests |-> <<PullRequest("url",
           <<[state |-> "APPROVED"]>>, <<>>, 1)>>] }

\* The keys of a dict of n items, in insertion order
DataKeys(n) ==
    { k \in [1..n -> Commits] : \A i, j \in 1..n : k[i] = k[j] => i = j }

\* The attestations lists of the values of data
AttestationLists == BoundedSeq(DataAttestations, MaxAttestations)

-----------------------------------------------------------------------------
(* The calls.                                                              *)

Init ==
    /\ pc = "ready"
    /\ commit_hash = ""
    /\ attestation = <<>>
    /\ result = <<>>
    /\ raised = FALSE
    /\ pr_index = 0
    /\ data = <<>>
    /\ results = <<>>
    /\ invoked = <<>>
    /\ mpc = "symbolic_ref"
    /\ git = <<>>
    /\ commit_list = <<>>
    /\ files = [evidence |-> <<>>, output |-> <<>>]
    /\ printed = [out |-> <<>>, err |-> <<>>]
    /\ echoed = <<>>
    /\ exit_status = 0
    /\ failure = ""
    /\ attempts = [fetch |-> 0, report |-> 0]
    /\ handle = [opened |-> 0, closed |-> 0]
    /\ reported = <<>>
    /\ steps = <<>>
    /\ done = <<>>
    /\ pending = ""
    /\ passed = <<>>

\* A call evaluate_attestation(h, att)
CallEvaluateAttestation ==
    /\ pc = "ready"
    /\ \E h \in Commits, t \in AttestationTypes, c \in AttestationCompliants,
          u \in AttestationUrls, p \in AttestationPullRequests :
         LET att == t @@ c @@ u @@ p
             e == evaluate_attestation(h, att)
         IN  /\ passed' = [commit_hash |-> h, attestation |-> att]
             /\ commit_hash' = arguments_after(h, att).commit_hash
             /\ attestation' = arguments_after(h, att).attestation
             /\ result' = e.result
             /\ raised' = e.raised
             /\ pr_index' = e.pr_index
    /\ pc' = "evaluate_attestation"
    /\ UNCHANGED <<data, results, invoked, mainVars>>

\* A call evaluate_all(d)
CallEvaluateAll ==
    /\ pc = "ready"
    /\ \E n \in 0..MaxData :
         \E ks \in DataKeys(n), as \in [1..n -> AttestationLists] :
           LET d == [ i \in 1..n |-> <<ks[i], as[i]>> ]
               e == evaluate_all(d)
           IN  /\ data' = d
               /\ results' = e.results
               /\ invoked' = e.invoked
               /\ raised' = e.raised
    /\ pc' = "evaluate_all"
    /\ UNCHANGED <<commit_hash, attestation, result, pr_index, passed,
                   mainVars>>

Next == CallEvaluateAttestation \/ CallEvaluateAll

Spec == Init /\ [][Next]_vars

-----------------------------------------------------------------------------
(* main(): get_commit_list, make_attestations_request, the evidence file, *)
(* evaluate_all, the result file, report_code_review_attestations.  What  *)
(* git, the compliance service and the file system answer is chosen in    *)
(* each step.                                                              *)

\* The commit ranges git log can list
CommitRanges == UNION { DataKeys(n) : n \in 0..MaxData }

\* The attestations lists of a response of the service
ResponseLists == BoundedSeq(DataAttestations, 1)

\* requests.exceptions.RequestException: the failures of a request
RequestExceptions == {"ConnectionError", "Timeout", "HTTPError"}

print_to(stream, message) ==
    IF stream = "out"
    THEN [printed EXCEPT !.out = Append(@, message)]
    ELSE [printed EXCEPT !.err = Append(@, message)]

\* sys.exit(1), or an exception nothing catches, with its message on stderr
Exit1(cause, message) ==
    /\ mpc' = "exited"
    /\ exit_status' = 1
    /\ failure' = cause
    /\ printed' = print_to("err", message)

\* GitSymbolicRef without the check for a detached HEAD: no command is run
GitSymbolicRef_no_check ==
    /\ mpc = "symbolic_ref"
    /\ steps' = Append(steps, "resolve")
    /\ mpc' = "rev_parse"
    /\ UNCHANGED <<callVars, raised, data, results, invoked, commit_list,
                   files, echoed, attempts, handle, reported, done, pending,
                   git, exit_status, failure, printed>>

\* get_commit_list: git symbolic-ref --quiet HEAD
GitSymbolicRef ==
    /\ mpc = "symbolic_ref"
    /\ git' = Append(git, "symbolic-ref")
    /\ steps' = Append(steps, "resolve")
    /\ \E returncode \in 0..1 :
         IF returncode # 0
         THEN Exit1("detached", "Error: Currently on a detached HEAD")
         ELSE /\ mpc' = "rev_parse"
              /\ UNCHANGED <<exit_status, failure, printed>>
    /\ UNCHANGED <<callVars, raised, data, results, invoked, commit_list,
                   files, echoed, attempts, handle, reported, done, pending>>

\* GitRevParse reporting the missing ref without leaving
GitRevParse_no_exit ==
    /\ mpc = "rev_parse"
    /\ git' = Append(git, "rev-parse")
    /\ \E returncode \in 0..1 :
         IF returncode = 0
         THEN /\ mpc' = "log"
              /\ UNCHANGED <<exit_status, failure, printed>>
         ELSE /\ mpc' = "log"
              /\ failure' = "base_ref"
              /\ printed' = print_to("err", "Error: Ref not found")
              /\ UNCHANGED exit_status
    /\ UNCHANGED <<callVars, raised, data, results, invoked, commit_list,
                   files, echoed, attempts, handle, reported, steps, done,
                   pending>>

\* get_commit_list: git rev-parse --verify base_ref
GitRevParse ==
    /\ mpc = "rev_parse"
    /\ git' = Append(git, "rev-parse")
    /\ \E returncode \in 0..1 :
         IF returncode = 0
         THEN /\ mpc' = "log"
              /\ UNCHANGED <<exit_status, failure, printed>>
         ELSE Exit1("base_ref", "Error: Ref not found")
    /\ UNCHANGED <<callVars, raised, data, results, invoked, commit_list,
                   files, echoed, attempts, handle, reported, steps, done,
                   pending>>

\* get_commit_list: git log --format=%H base_ref..release_ref, check=True
GitLog ==
    /\ mpc = "log"
    /\ git' = Append(git, "log")
    /\ \/ \E range \in CommitRanges :
            /\ commit_list' = range
            /\ printed' = [printed EXCEPT
                             !.out = @ \o <<"Using commits", "Found commits">>]
            /\ done' = Append(done, "resolve")
            /\ mpc' = "fetch"
            /\ UNCHANGED <<exit_status, failure>>
       \/ /\ Exit1("git_log", "Error executing git command")
          /\ UNCHANGED <<commit_list, done>>
    /\ UNCHANGED <<callVars, raised, data, results, invoked, files, echoed,
                   attempts, handle, reported, steps, pending>>

\* Fetch trying again after a failed request
Fetch_retry ==
    /\ mpc = "fetch"
    /\ attempts.fetch < 3
    /\ steps' = IF attempts.fetch = 0 THEN Append(steps, "fetch") ELSE steps
    /\ attempts' = [attempts EXCEPT !.fetch = @ + 1]
    /\ \/ \E n \in 0..MaxData :
            \E ks \in DataKeys(n), as \in [1..n -> ResponseLists] :
              /\ data' = [ i \in 1..n |-> <<ks[i], as[i]>> ]
              /\ done' = Append(done, "fetch")
              /\ mpc' = "write_evidence"
              /\ UNCHANGED <<exit_status, failure, printed>>
       \/ \E e \in RequestExceptions :
            /\ printed' = print_to("err", "Error making API request")
            /\ UNCHANGED <<mpc, exit_status, failure, data, done>>
    /\ UNCHANGED <<callVars, raised, results, invoked, git, commit_list,
                   files, echoed, handle, reported, pending>>

\* Fetch going on with an empty mapping after a failed request
Fetch_continue_on_error ==
    /\ mpc = "fetch"
    /\ steps' = Append(steps, "fetch")
    /\ attempts' = [attempts EXCEPT !.fetch = @ + 1]
    /\ \/ \E n \in 0..MaxData :
            \E ks \in DataKeys(n), as \in [1..n -> ResponseLists] :
              /\ data' = [ i \in 1..n |-> <<ks[i], as[i]>> ]
              /\ done' = Append(done, "fetch")
              /\ mpc' = "write_evidence"
              /\ UNCHANGED <<exit_status, failure, printed>>
       \/ \E e \in RequestExceptions :
            /\ printed' = print_to("err", "Error making API request")
            /\ failure' = e
            /\ mpc' = "write_evidence"
            /\ UNCHANGED <<exit_status, data, done>>
    /\ UNCHANGED <<callVars, raised, results, invoked, git, commit_list,
                   files, echoed, handle, reported, pending>>

\* make_attestations_request
Fetch ==
    /\ mpc = "fetch"
    /\ steps' = Append(steps, "fetch")
    /\ attempts' = [attempts EXCEPT !.fetch = @ + 1]
    /\ \/ \E n \in 0..MaxData :
            \E ks \in DataKeys(n), as \in [1..n -> ResponseLists] :
              /\ data' = [ i \in 1..n |-> <<ks[i], as[i]>> ]
              /\ done' = Append(done, "fetch")
              /\ mpc' = "write_evidence"
              /\ UNCHANGED <<exit_status, failure, printed>>
       \/ \E e \in RequestExceptions :
            /\ Exit1(e, "Error making API request")
            /\ UNCHANGED <<data, done>>
    /\ UNCHANGED <<callVars, raised, results, invoked, git, commit_list,
                   files, echoed, handle, reported, pending>>

\* json.dump(data) into attestations_evidence.json
WriteEvidence ==
    /\ mpc = "write_evidence"
    /\ steps' = Append(steps, "write_evidence")
    /\ files' = [files EXCEPT !.evidence = <<data>>]
    /\ done' = Append(done, "write_evidence")
    /\ mpc' = "evaluate"
    /\ UNCHANGED <<callVars, raised, data, results, invoked, git,
                   commit_list, printed, echoed, exit_status, failure,
                   attempts, handle, reported, pending>>

\* output = evaluate_all(data); an IndexError is caught nowhere
EvaluateAll ==
    /\ mpc = "evaluate"
    /\ steps' = Append(steps, "evaluate")
    /\ LET e == evaluate_all(data)
       IN  /\ raised' = e.raised
           /\ invoked' = e.invoked
           /\ IF e.raised
              THEN /\ Exit1("IndexError", "Traceback: IndexError")
                   /\ UNCHANGED <<results, done>>
              ELSE /\ results' = e.results
                   /\ done' = Append(done, "evaluate")
                   /\ mpc' = "write_results"
                   /\ UNCHANGED <<exit_status, failure, printed>>
    /\ UNCHANGED <<callVars, data, git, commit_list, files, echoed,
                   attempts, handle, reported, pending>>

\* json.dump(output) into the output file, and the two prints
WriteResults ==
    /\ mpc = "write_results"
    /\ steps' = Append(steps, "write_results")
    /\ files' = [files EXCEPT !.output = <<results>>]
    /\ printed' = print_to("out", "Evaluation results saved to")
    /\ echoed' = <<results>>
    /\ done' = Append(done, "write_results")
    /\ mpc' = "report_open"
    /\ UNCHANGED <<callVars, raised, data, results, invoked, git,
                   commit_list, exit_status, failure, attempts, handle,
                   reported, pending>>

\* report_code_review_attestations: the files dict, open(evidence_file)
\* before the try; an OSError goes to the except Exception of main
ReportOpen ==
    /\ mpc = "report_open"
    /\ steps' = Append(steps, "report")
    /\ \/ /\ handle' = [handle EXCEPT !.opened = @ + 1]
          /\ mpc' = "report_post"
          /\ UNCHANGED <<exit_status, failure, printed>>
       \/ /\ Exit1("OSError", "Error reporting code review attestations")
          /\ UNCHANGED handle
    /\ UNCHANGED <<callVars, raised, data, results, invoked, git,
                   commit_list, files, echoed, attempts, reported, done,
                   pending>>

\* ReportPost sending the results that do not pass only
ReportPost_failures_only ==
    /\ mpc = "report_post"
    /\ attempts' = [attempts EXCEPT !.report = @ + 1]
    /\ reported' = <<SelectSeq(results, LAMBDA r : ~r.pass)>>
    /\ \/ /\ pending' = "return"
          /\ UNCHANGED <<failure, printed>>
       \/ \E e \in RequestExceptions :
            /\ pending' = "SystemExit"
            /\ failure' = e
            /\ printed' = print_to("err", "Error making API request")
       \/ /\ pending' = "raise"
          /\ failure' = "Exception"
          /\ UNCHANGED printed
    /\ mpc' = "report_finally"
    /\ UNCHANGED <<callVars, raised, data, results, invoked, git,
                   commit_list, files, echoed, exit_status, handle, steps,
                   done>>

\* report_code_review_attestations: the try block and its except clause
ReportPost ==
    /\ mpc = "report_post"
    /\ attempts' = [attempts EXCEPT !.report = @ + 1]
    /\ reported' = <<results>>
    /\ \/ /\ pending' = "return"
          /\ UNCHANGED <<failure, printed>>
       \/ \E e \in RequestExceptions :
            /\ pending' = "SystemExit"
            /\ failure' = e
            /\ printed' = print_to("err", "Error making API request")
       \/ /\ pending' = "raise"
          /\ failure' = "Exception"
          /\ UNCHANGED printed
    /\ mpc' = "report_finally"
    /\ UNCHANGED <<callVars, raised, data, results, invoked, git,
                   commit_list, files, echoed, exit_status, handle, steps,
                   done>>

\* ReportFinally closing the file after a successful request only
ReportFinally_success_only ==
    /\ mpc = "report_finally"
    /\ handle' = IF pending = "return"
                 THEN [handle EXCEPT !.closed = @ + 1]
                 ELSE handle
    /\ mpc' = "report_left"
    /\ UNCHANGED <<callVars, raised, data, results, invoked, git,
                   commit_list, files, printed, echoed, exit_status,
                   failure, attempts, reported, steps, done, pending>>

\* report_code_review_attestations: the finally block
ReportFinally ==
    /\ mpc = "report_finally"
    /\ handle' = [handle EXCEPT !.closed = @ + 1]
    /\ mpc' = "report_left"
    /\ UNCHANGED <<callVars, raised, data, results, invoked, git,
                   commit_list, files, printed, echoed, exit_status,
                   failure, attempts, reported, steps, done, pending>>

\* AfterReport removing the two files when the report failed
AfterReport_cleanup ==
    /\ mpc = "report_left"
    /\ mpc' = "exited"
    /\ IF pending = "return"
       THEN /\ printed' = [printed EXCEPT !.out = @ \o
                   <<"Code review attestations reported successfully",
                     "response">>]
            /\ done' = Append(done, "report")
            /\ exit_status' = 0
            /\ UNCHANGED files
       ELSE IF pending = "SystemExit"
       THEN /\ exit_status' = 1
            /\ files' = [evidence |-> <<>>, output |-> <<>>]
            /\ UNCHANGED <<printed, done>>
       ELSE /\ printed' =
                  print_to("err", "Error reporting code review attestations")
            /\ exit_status' = 1
            /\ files' = [evidence |-> <<>>, output |-> <<>>]
            /\ UNCHANGED done
    /\ UNCHANGED <<callVars, raised, data, results, invoked, git,
                   commit_list, echoed, failure, attempts, handle,
                   reported, steps, pending>>

\* AfterReport printing the error of the report without sys.exit(1)
AfterReport_exit_zero ==
    /\ mpc = "report_left"
    /\ mpc' = "exited"
    /\ IF pending = "return"
       THEN /\ printed' = [printed EXCEPT !.out = @ \o
                   <<"Code review attestations reported successfully",
                     "response">>]
            /\ done' = Append(done, "report")
            /\ exit_status' = 0
       ELSE IF pending = "SystemExit"
       THEN /\ exit_status' = 1
            /\ UNCHANGED <<printed, done>>
       ELSE /\ printed' =
                  print_to("err", "Error reporting code review attestations")
            /\ exit_status' = 0
            /\ UNCHANGED done
    /\ UNCHANGED <<callVars, raised, data, results, invoked, git,
                   commit_list, files, echoed, failure, attempts, handle,
                   reported, steps, pending>>

\* main after report_code_review_attestations: the prints of the try block,
\* the except Exception clause, or the SystemExit passing through
AfterReport ==
    /\ mpc = "report_left"
    /\ mpc' = "exited"
    /\ IF pending = "return"
       THEN /\ printed' = [printed EXCEPT !.out = @ \o
                   <<"Code review attestations reported successfully",
                     "response">>]
            /\ done' = Append(done, "report")
            /\ exit_status' = 0
       ELSE IF pending = "SystemExit"
       THEN /\ exit_status' = 1
            /\ UNCHANGED <<printed, done>>
       ELSE /\ printed' =
                  print_to("err", "Error reporting code review attestations")
            /\ exit_status' = 1
            /\ UNCHANGED done
    /\ UNCHANGED <<callVars, raised, data, results, invoked, git,
                   commit_list, files, echoed, failure, attempts, handle,
                   reported, steps, pending>>

NextMain ==
    \/ GitSymbolicRef
    \/ GitRevParse
    \/ GitLog
    \/ Fetch
    \/ WriteEvidence
    \/ EvaluateAll
    \/ WriteResults
    \/ ReportOpen
    \/ ReportPost
    \/ ReportFinally
    \/ AfterReport

SpecMain == Init /\ [][NextMain]_vars


-----------------------------------------------------------------------------
(* The vocabulary of the claims, stated on the inputs and the outputs of   *)
(* a call.                                                                 *)

Called == pc = "evaluate_attestation"

Returned == Called /\ ~raised

\* attestation_type, "None" standing for an absent one
TypeText ==
    IF "attestation_type" \in DOMAIN attestation
    THEN attestation.attestation_type
    ELSE "None"

PRs ==
    IF "pull_requests" \in DOMAIN attestation
    THEN attestation.pull_requests
    ELSE <<>>

\* s without its leading and trailing whitespace
Trimmed(s) ==
    LET black == { k \in DOMAIN s : s[k] \notin {" ", "\t", "\n"} }
    IN  IF black = {} THEN <<>>
        ELSE SubSeq(s, CHOOSE k \in black : \A m \in black : k <= m,
                       CHOOSE k \in black : \A m \in black : k >= m)

\* The trimmed, deduplicated usernames of the approver entries of pr that
\* carry a username
ApproverSet(pr) ==
    IF "approvers" \notin DOMAIN pr THEN {}
    ELSE { Trimmed(pr.approvers[k].username) :
             k \in { m \in DOMAIN pr.approvers :
                       "username" \in DOMAIN pr.approvers[m] } }

\* The author_username of the commits of pr
AuthorSet(pr) ==
    IF "commits" \notin DOMAIN pr THEN {}
    ELSE { pr.commits[k].author_username :
             k \in { m \in DOMAIN pr.commits :
                       "author_username" \in DOMAIN pr.commits[m] } }

\* pr has exactly one approver, who is a commit author of pr
SoleApproverCommitted(pr) ==
    /\ Cardinality(ApproverSet(pr)) = 1
    /\ ApproverSet(pr) \subseteq AuthorSet(pr)

\* The sub-check of one pull request
PassesSubCheck(pr) ==
    \/ Cardinality(ApproverSet(pr)) >= 2
    \/ /\ Cardinality(ApproverSet(pr)) = 1
       /\ ApproverSet(pr) \cap AuthorSet(pr) = {}

EarlierPass(i) == \A j \in 1..(i - 1) : PassesSubCheck(PRs[j])

-----------------------------------------------------------------------------
(* The claims.                                                             *)

\* C1: for an attestation of type "override", pass equals is_compliant
\* (false when absent), the reason is "Overridden as compliant" when pass
\* is true and "Overridden as non-compliant" when it is false, and the call
\* returns.
C1_Override ==
    (Called /\ TypeText = "override") =>
        /\ ~raised
        /\ result.pass = ( /\ "is_compliant" \in DOMAIN attestation
                           /\ attestation.is_compliant )
        /\ result.pass => result.reason = "Overridden as compliant"
        /\ ~result.pass => result.reason = "Overridden as non-compliant"

C1_Witness ==
    /\ Called
    /\ TypeText = "override"
    /\ "is_compliant" \in DOMAIN attestation
    /\ attestation.is_compliant
    /\ result.pass
    /\ result.reason = "Overridden as compliant"

\* C2: for an attestation of type "pull_request" whose pull_requests is
\* empty, the result is pass=false, "No pull requests in attestation", and
\* has no pr_url.
C2_NoPullRequests ==
    (Called /\ TypeText = "pull_request" /\ PRs = <<>>) =>
        /\ ~raised
        /\ ~result.pass
        /\ result.reason = "No pull requests in attestation"
        /\ "pr_url" \notin DOMAIN result

C2_Witness ==
    /\ Called
    /\ TypeText = "pull_request"
    /\ "pull_requests" \in DOMAIN attestation
    /\ attestation.pull_requests = <<>>
    /\ result.reason = "No pull requests in attestation"

\* C3: for an attestation of type "pull_request" with a non-empty
\* pull_requests, the call returns pass=true with "Pull request demonstrates
\* never-alone code review" if and only if every pull request passes its
\* sub-check.
C3_PassIffAllPass ==
    (Called /\ TypeText = "pull_request" /\ PRs # <<>>) =>
        ( ( /\ ~raised
            /\ result.pass
            /\ result.reason
                 = "Pull request demonstrates never-alone code review" )
          <=> \A i \in DOMAIN PRs : PassesSubCheck(PRs[i]) )

C3_Witness ==
    /\ Called
    /\ TypeText = "pull_request"
    /\ Len(PRs) = 2
    /\ \A i \in DOMAIN PRs : PassesSubCheck(PRs[i])
    /\ Cardinality(ApproverSet(PRs[1])) = 1
    /\ result.pass

\* C4 as stated, over the calls that return: a pull request whose sole
\* approver is a commit author of it, anywhere in the sequence, makes the
\* result pass=false, "The only approver of the PR is also a committer".
C4_AsStated ==
    ( /\ Returned
      /\ TypeText = "pull_request"
      /\ \E i \in DOMAIN PRs : SoleApproverCommitted(PRs[i]) ) =>
        /\ ~result.pass
        /\ result.reason = "The only approver of the PR is also a committer"

\* C4, amended: a pull request whose sole approver is a commit author of it
\* makes the result pass=false, "The only approver of the PR is also a
\* committer", when every pull request before it passes its sub-check.
C4_FirstFailing ==
    (Called /\ TypeText = "pull_request") =>
        \A i \in DOMAIN PRs :
            (SoleApproverCommitted(PRs[i]) /\ EarlierPass(i)) =>
                /\ ~raised
                /\ ~result.pass
                /\ result.reason
                     = "The only approver of the PR is also a committer"

C4_Witness ==
    /\ Called
    /\ TypeText = "pull_request"
    /\ Len(PRs) = 2
    /\ PassesSubCheck(PRs[1])
    /\ SoleApproverCommitted(PRs[2])
    /\ PRs[2].approvers[1].username # Trimmed(PRs[2].approvers[1].username)
    /\ result.reason = "The only approver of the PR is also a committer"

\* C5: a pull request with 2 or more distinct trimmed approver usernames is
\* never the one at which evaluation stops, also when all its approvers are
\* commit authors of it: when the pull requests before it pass, evaluation
\* goes on past it, and ends in pass=true when it is the last one.
C5_TwoApproversContinue ==
    (Called /\ TypeText = "pull_request") =>
        \A i \in DOMAIN PRs :
            Cardinality(ApproverSet(PRs[i])) >= 2 =>
                /\ pr_index # i
                /\ EarlierPass(i) => (pr_index = 0 \/ pr_index > i)
                /\ (EarlierPass(i) /\ i = Len(PRs)) =>
                       (~raised /\ result.pass)

C5_Witness ==
    /\ Called
    /\ TypeText = "pull_request"
    /\ Len(PRs) = 2
    /\ Cardinality(ApproverSet(PRs[1])) >= 2
    /\ ApproverSet(PRs[1]) \subseteq AuthorSet(PRs[1])
    /\ pr_index = 2

\* C6: a pull request reached during evaluation whose approver-username set
\* is empty (no approver entries, or none with a username) makes the call
\* return pass=false, "Pull request has no approvers", without raising.
C6_EmptyApproverSet ==
    (Called /\ TypeText = "pull_request") =>
        \A i \in DOMAIN PRs :
            (ApproverSet(PRs[i]) = {} /\ EarlierPass(i)) =>
                /\ ~raised
                /\ ~result.pass
                /\ result.reason = "Pull request has no approvers"

\* C7: a pr_url in the result is the url of pull_requests[0], also when a
\* later pull request is the one that caused the failure.
C7_PrUrlIsFirst ==
    (Called /\ "pr_url" \in DOMAIN result) =>
        /\ PRs # <<>>
        /\ "url" \in DOMAIN PRs[1]
        /\ result.pr_url = PRs[1].url

C7_Witness ==
    /\ Returned
    /\ pr_index = 2
    /\ ~result.pass
    /\ "pr_url" \in DOMAIN result
    /\ "url" \in DOMAIN PRs[2]
    /\ PRs[2].url # PRs[1].url
    /\ result.pr_url = PRs[1].url

\* C8 as stated, over the calls that return: for type "pull_request" with a
\* non-empty pull_requests the result contains pr_url, whatever the url of
\* the first pull request.
C8_AsStated ==
    (Returned /\ TypeText = "pull_request" /\ PRs # <<>>) =>
        "pr_url" \in DOMAIN result

\* C8, amended: for type "pull_request" with a non-empty pull_requests the
\* result contains pr_url, whatever the outcome, exactly when the url of
\* the first pull request is present and not empty.
C8_PrUrlIffFirstUrl ==
    (Called /\ TypeText = "pull_request" /\ PRs # <<>>) =>
        ( "pr_url" \in DOMAIN result
          <=> ("url" \in DOMAIN PRs[1] /\ PRs[1].url # "") )

C8_Witness ==
    /\ Returned
    /\ TypeText = "pull_request"
    /\ PRs # <<>>
    /\ "url" \in DOMAIN PRs[1]
    /\ PRs[1].url = ""
    /\ "pr_url" \notin DOMAIN result

\* C9 as stated: for an attestation_type other than "override" and
\* "pull_request" the result is pass=false, "Attestation is <type>, not a
\* pull request or pull-request override", and has no pr_url, whatever the
\* other fields.
C9_AsStated ==
    (Called /\ TypeText \notin {"override", "pull_request"}) =>
        /\ ~raised
        /\ ~result.pass
        /\ result.reason = "Attestation is " \o TypeText
               \o ", not a pull request or pull-request override"
        /\ "pr_url" \notin DOMAIN result

\* C9, amended: for an attestation_type other than "override" and
\* "pull_request" the result is pass=false, "Attestation is <type>, not a
\* pull request or pull-request override"; it has no pr_url unless the
\* attestation carries a non-empty pull_requests whose first url is not
\* empty, and then pr_url is that url.
C9_OtherType ==
    (Called /\ TypeText \notin {"override", "pull_request"}) =>
        /\ ~raised
        /\ ~result.pass
        /\ result.reason = "Attestation is " \o TypeText
               \o ", not a pull request or pull-request override"
        /\ "pr_url" \in DOMAIN result
             <=> (PRs # <<>> /\ "url" \in DOMAIN PRs[1] /\ PRs[1].url # "")
        /\ "pr_url" \in DOMAIN result => result.pr_url = PRs[1].url

C9_Witness ==
    /\ Called
    /\ "attestation_type" \notin DOMAIN attestation
    /\ PRs # <<>>
    /\ "pr_url" \in DOMAIN result
    /\ result.reason
         = "Attestation is None, not a pull request or pull-request override"

\* C10: the sequence evaluate_all returns has one result per key of the
\* mapping, in the mapping's order: as many results as keys, the i-th result
\* carrying the i-th key; for the empty mapping it is the empty sequence.
C10_OneResultPerKey ==
    /\ (pc = "evaluate_all" /\ ~raised) =>
           /\ Len(results) = Len(data)
           /\ \A i \in DOMAIN data : results[i].commit = data[i][1]
    /\ (pc = "evaluate_all" /\ data = <<>>) => (~raised /\ results = <<>>)

C10_Witness ==
    /\ pc = "evaluate_all"
    /\ ~raised
    /\ Len(data) = 2
    /\ data[1][1] = "c2"
    /\ data[1][2] = <<>>
    /\ data[2][1] = "c1"
    /\ data[2][2] # <<>>
    /\ results[1].commit = "c2"
    /\ results[2].commit = "c1"

\* C11: for a key of the mapping whose attestations list is empty, the
\* result evaluate_all returns is {commit: key, pass: false, reason: "No
\* attestations found", attestation_url: null}, without pr_url, and
\* evaluate_attestation is not called for that key.
C11_NoAttestations ==
    pc = "evaluate_all" =>
        \A i \in DOMAIN data :
            data[i][2] = <<>> =>
                /\ ~raised =>
                       /\ DOMAIN results[i]
                            = {"commit", "pass", "reason", "attestation_url"}
                       /\ results[i].commit = data[i][1]
                       /\ results[i].pass = FALSE
                       /\ results[i].reason = "No attestations found"
                       /\ results[i].attestation_url = "null"
                /\ \A k \in DOMAIN invoked : invoked[k] # data[i][1]

C11_Witness ==
    /\ pc = "evaluate_all"
    /\ ~raised
    /\ Len(data) = 2
    /\ data[1][2] # <<>>
    /\ data[2][2] = <<>>
    /\ results[2].reason = "No attestations found"
    /\ invoked = <<data[1][1]>>

\* The mapping with every attestations list cut down to its first element
FirstOnly(d) ==
    [ i \in DOMAIN d |->
        <<d[i][1], IF d[i][2] = <<>> THEN <<>> ELSE <<d[i][2][1]>>>> ]

\* C12: for a key whose attestations list is not empty, the result of
\* evaluate_all is evaluate_attestation(key, attestations[0]); the
\* attestations at index >= 1 have no influence: without them the outcome
\* of evaluate_all is the same.
C12_FirstAttestationOnly ==
    pc = "evaluate_all" =>
        /\ ~raised =>
               \A i \in DOMAIN data :
                   data[i][2] # <<>> =>
                       results[i]
                         = evaluate_attestation(data[i][1],
                                                data[i][2][1]).result
        /\ evaluate_all(FirstOnly(data)).raised = raised
        /\ evaluate_all(FirstOnly(data)).results = results

C12_Witness ==
    /\ pc = "evaluate_all"
    /\ ~raised
    /\ \E i \in DOMAIN data :
         /\ Len(data[i][2]) = 2
         /\ evaluate_attestation(data[i][1], data[i][2][2]).raised
         /\ results[i].reason = "Overridden as compliant"

\* The permutations of 1..n
Perms(n) ==
    { f \in [1..n -> 1..n] : \A i, j \in 1..n : f[i] = f[j] => i = j }

\* The attestation with the approvers of pull request i listed in the
\* order f
Reordered(att, i, f) ==
    [att EXCEPT !.pull_requests[i].approvers =
        [ k \in DOMAIN @ |-> @[f[k]] ]]

\* C13: the outcome of evaluate_attestation does not depend on the order in
\* which the approver entries of a pull request are listed, nor on the
\* iteration order of the approver set (each iteration of the loop has one
\* outcome whichever element of the set comes first).
C13_OrderIndependent ==
    Called =>
        \A i \in DOMAIN PRs :
            /\ Cardinality(check_pr_outcomes(PRs[i])) = 1
            /\ "approvers" \in DOMAIN PRs[i] =>
                   \A f \in Perms(Len(PRs[i].approvers)) :
                       evaluate_attestation(commit_hash,
                                            Reordered(attestation, i, f))
                         = [raised |-> raised, pr_index |-> pr_index,
                            result |-> result]

C13_Witness ==
    /\ Returned
    /\ TypeText = "pull_request"
    /\ Len(PRs) = 1
    /\ "approvers" \in DOMAIN PRs[1]
    /\ Len(PRs[1].approvers) = 2
    /\ PRs[1].approvers[1] # PRs[1].approvers[2]
    /\ "username" \notin DOMAIN PRs[1].approvers[1]
    /\ result.reason = "The only approver of the PR is also a committer"

\* The pull request with its absent approvers and commits written out as
\* empty lists
FilledPR(pr) ==
    (IF "approvers" \in DOMAIN pr THEN <<>> ELSE [approvers |-> <<>>])
    @@ (IF "commits" \in DOMAIN pr THEN <<>> ELSE [commits |-> <<>>])
    @@ pr

\* The attestation with its absent pull_requests, is_compliant, approvers
\* and commits written out as empty or false
Filled(att) ==
    [pull_requests |->
        IF "pull_requests" \in DOMAIN att
        THEN [ i \in DOMAIN att.pull_requests |->
                 FilledPR(att.pull_requests[i]) ]
        ELSE <<>>]
    @@ (IF "is_compliant" \in DOMAIN att THEN <<>>
        ELSE [is_compliant |-> FALSE])
    @@ att

\* C14: absent optional fields are taken as empty or false and do not make
\* the call raise: the outcome is that of the attestation with the absent
\* pull_requests, is_compliant, approvers and commits written out; an
\* override without is_compliant gives "Overridden as non-compliant", a
\* pull_request attestation without pull_requests "No pull requests in
\* attestation", a pull request without approvers, when reached, "Pull
\* request has no approvers", and a pull request without commits passes
\* with a sole approver.
C14_AbsentFields ==
    Called =>
        /\ evaluate_attestation(commit_hash, Filled(attestation))
             = [raised |-> raised, pr_index |-> pr_index, result |-> result]
        /\ (TypeText = "override" /\ "is_compliant" \notin DOMAIN attestation)
               => (~raised /\ ~result.pass
                   /\ result.reason = "Overridden as non-compliant")
        /\ ( /\ TypeText = "pull_request"
             /\ "pull_requests" \notin DOMAIN attestation )
               => (~raised /\ ~result.pass
                   /\ result.reason = "No pull requests in attestation")
        /\ TypeText = "pull_request" =>
               \A i \in DOMAIN PRs :
                   /\ ("approvers" \notin DOMAIN PRs[i] /\ EarlierPass(i))
                          => (~raised /\ ~result.pass
                              /\ result.reason
                                   = "Pull request has no approvers")
                   /\ ( /\ "commits" \notin DOMAIN PRs[i]
                        /\ Cardinality(ApproverSet(PRs[i])) = 1
                        /\ Len(PRs) = 1 )
                          => (~raised /\ result.pass)

C14_Witness ==
    /\ Returned
    /\ TypeText = "pull_request"
    /\ "is_compliant" \notin DOMAIN attestation
    /\ "html_url" \notin DOMAIN attestation
    /\ Len(PRs) = 1
    /\ DOMAIN PRs[1] = {"commits"}
    /\ result.reason = "Pull request has no approvers"

-----------------------------------------------------------------------------
(* The claims about a run of main().                                       *)

Exited == mpc = "exited"

Succeeded == Exited /\ exit_status = 0

\* C15: in report_code_review_attestations the evidence file is opened at
\* most once; while the request is made it is open; once the function is
\* left (by return, by sys.exit(1) or by another exception) a handle that
\* was opened has been closed exactly once.
C15_HandleClosed ==
    /\ handle.opened <= 1
    /\ handle.closed <= handle.opened
    /\ mpc \in {"report_post", "report_finally"} =>
           (handle.opened = 1 /\ handle.closed = 0)
    /\ mpc \in {"report_left", "exited"} => handle.closed = handle.opened

C15_Witness ==
    /\ Exited
    /\ pending = "raise"
    /\ handle = [opened |-> 1, closed |-> 1]

\* C16: when the commit range is not resolved (detached HEAD, base ref not
\* verified, git log failing) the run has ended with exit status 1 and
\* nothing after the resolution has happened: no fetch, no evidence file,
\* no result file, no report.
C16_ResolutionFailure ==
    failure \in {"detached", "base_ref", "git_log"} =>
        /\ Exited
        /\ exit_status = 1
        /\ steps = <<"resolve">>
        /\ attempts = [fetch |-> 0, report |-> 0]
        /\ files = [evidence |-> <<>>, output |-> <<>>]
        /\ reported = <<>>
        /\ handle.opened = 0

C16_Witness ==
    /\ Exited
    /\ failure = "git_log"
    /\ git = <<"symbolic-ref", "rev-parse", "log">>
    /\ exit_status = 1

\* C17: the fetch request and the report request are each made at most
\* once, and after a connection error, a timeout or an HTTP error status of
\* either the run does nothing but leave, with exit status 1.
C17_NoRetry ==
    /\ attempts.fetch <= 1
    /\ attempts.report <= 1
    /\ failure \in {"ConnectionError", "Timeout", "HTTPError"} =>
           /\ mpc \in {"report_finally", "report_left", "exited"}
           /\ Exited => exit_status = 1

C17_Witness ==
    /\ Exited
    /\ failure = "Timeout"
    /\ attempts = [fetch |-> 1, report |-> 1]
    /\ exit_status = 1

StepOrder ==
    <<"resolve", "fetch", "write_evidence", "evaluate", "write_results",
      "report">>

IsPrefix(p, q) == Len(p) <= Len(q) /\ SubSeq(q, 1, Len(p)) = p

\* C18: the steps begun are an initial part of resolve, fetch, write
\* evidence, evaluate, write results, report (so none is begun twice), and a
\* step is begun only when all the steps before it have completed.
C18_StepOrder ==
    /\ IsPrefix(steps, StepOrder)
    /\ IsPrefix(done, steps)
    /\ Len(steps) <= Len(done) + 1

C18_Witness ==
    /\ Succeeded
    /\ steps = StepOrder
    /\ done = StepOrder

\* C19: a run that ends with status 0 has written the fetched data to the
\* evidence file and the output of evaluate_all to the result file and has
\* echoed that output; a run that ends otherwise ends with a non-zero status
\* and a message on stderr.
C19_Artifacts ==
    /\ Succeeded =>
           /\ failure = ""
           /\ files.evidence = <<data>>
           /\ ~evaluate_all(data).raised
           /\ files.output = <<evaluate_all(data).results>>
           /\ echoed = <<evaluate_all(data).results>>
    /\ (Exited /\ ~Succeeded) =>
           (exit_status # 0 /\ failure # "" /\ printed.err # <<>>)
    /\ (Exited /\ failure # "") => exit_status # 0

C19_Witness ==
    /\ Succeeded
    /\ Len(data) = 2
    /\ files.evidence = <<data>>
    /\ files.output = <<results>>
    /\ echoed = <<results>>

\* The commits of a list of results
ResultCommits(rs) == [ i \in DOMAIN rs |-> rs[i].commit ]

\* C20 as stated: in a successful run the result list written and reported
\* has exactly one result for each commit of the resolved range.
C20_AsStated ==
    Succeeded =>
        /\ files.output = <<results>>
        /\ reported = <<results>>
        /\ Len(results) = Len(commit_list)
        /\ \A i \in DOMAIN commit_list :
             \E k \in DOMAIN results : results[k].commit = commit_list[i]

C20_OnePerKey ==
    Succeeded =>
        /\ files.output = <<results>>
        /\ reported = <<results>>
        /\ ResultCommits(results) = [ i \in DOMAIN data |-> data[i][1] ]
        /\ { data[i][1] : i \in DOMAIN data }
             = { commit_list[i] : i \in DOMAIN commit_list }
           => /\ Len(results) = Len(commit_list)
              /\ \A i \in DOMAIN commit_list :
                   \E k \in DOMAIN results :
                       results[k].commit = commit_list[i]

C20_Unmodified ==
    mpc \notin {"symbolic_ref", "rev_parse", "log", "fetch", "write_evidence",
                "evaluate"}
        => results' = results

\* C20, amended: in a successful run the result list written and reported
\* has exactly one result for each key of the fetched mapping, in its order,
\* hence one for each commit of the resolved range when the service answered
\* with exactly the commits of the range as keys; and no result changes
\* after evaluate_all produced it.
C20_OnePerFetchedKey == []C20_OnePerKey /\ [][C20_Unmodified]_vars

C20_Witness ==
    /\ Succeeded
    /\ commit_list = <<"c1", "c2">>
    /\ ResultCommits(results) = <<"c2", "c1">>
    /\ reported = <<results>>

-----------------------------------------------------------------------------
(* The claims about the frame, the vocabulary and the shape of results.    *)

C22_ReviewType ==
    (Returned /\ TypeText \in {"override", "pull_request"}) =>
        /\ "review_type" \in DOMAIN result
        /\ result["review_type"]
             = (IF TypeText = "override" THEN "Override" ELSE "Pull request")

\* get_commit_list has returned the commit list
Resolved == "resolve" \in { done[i] : i \in DOMAIN done }

NoApproverEntries(pr) == "approvers" \notin DOMAIN pr \/ pr.approvers = <<>>

\* pr fails its sub-check
Fails(pr) == NoApproverEntries(pr) \/ SoleApproverCommitted(pr)

\* The reason with which pr fails
FailReason(pr) ==
    IF NoApproverEntries(pr) THEN "Pull request has no approvers"
    ELSE "The only approver of the PR is also a committer"

\* The attestation with the pull requests after the i-th removed
UpTo(i) == [attestation EXCEPT !.pull_requests = SubSeq(PRs, 1, i)]

\* C24: when the pull request of lowest index that fails its sub-check is
\* reached (the ones before it pass), the call returns with the reason of
\* that pull request, whatever the pull requests after it are: they may
\* fail as well, for another reason, and the result is the one the call
\* gives without them.
C24_LowestFailing ==
    (Called /\ TypeText = "pull_request") =>
        \A i \in DOMAIN PRs :
            (Fails(PRs[i]) /\ EarlierPass(i)) =>
                /\ ~raised
                /\ ~result.pass
                /\ pr_index = i
                /\ result.reason = FailReason(PRs[i])
                /\ evaluate_attestation(commit_hash, UpTo(i))
                     = [raised |-> FALSE, pr_index |-> i, result |-> result]

C24_Witness ==
    /\ Returned
    /\ TypeText = "pull_request"
    /\ Len(PRs) = 2
    /\ NoApproverEntries(PRs[1])
    /\ SoleApproverCommitted(PRs[2])
    /\ pr_index = 1
    /\ result.reason = "Pull request has no approvers"

\* The one approver of a pull request with exactly one distinct approver
SoleApprover(pr) == CHOOSE u \in ApproverSet(pr) : TRUE

\* u and v are the same text up to the case of the letters
SameFolded(u, v) ==
    /\ Len(u) = Len(v)
    /\ \A k \in DOMAIN u :
         \/ u[k] = v[k]
         \/ {u[k], v[k]} = {"a", "A"}

\* C25: a pull request with exactly one distinct approver whose
\* predecessors pass is the one at which the call stops, with "The only
\* approver of the PR is also a committer", if and only if the trimmed
\* username of the approver is equal, letter case included, to the
\* author_username of one of its commits; an author who differs from the
\* approver in letter case only does not make it fail.
C25_ExactMatch ==
    (Called /\ TypeText = "pull_request") =>
        \A i \in DOMAIN PRs :
            (Cardinality(ApproverSet(PRs[i])) = 1 /\ EarlierPass(i)) =>
                /\ pr_index = i => ~raised
                /\ ( /\ pr_index = i
                     /\ ~result.pass
                     /\ result.reason
                          = "The only approver of the PR is also a committer" )
                   <=> ( /\ "commits" \in DOMAIN PRs[i]
                         /\ \E k \in DOMAIN PRs[i].commits :
                              /\ "author_username"
                                   \in DOMAIN PRs[i].commits[k]
                              /\ PRs[i].commits[k].author_username
                                   = SoleApprover(PRs[i]) )

C25_Witness ==
    /\ Returned
    /\ TypeText = "pull_request"
    /\ Len(PRs) = 1
    /\ Cardinality(ApproverSet(PRs[1])) = 1
    /\ "commits" \in DOMAIN PRs[1]
    /\ Len(PRs[1].commits) = 1
    /\ PRs[1].commits[1].author_username # SoleApprover(PRs[1])
    /\ SameFolded(PRs[1].commits[1].author_username, SoleApprover(PRs[1]))
    /\ result.pass

PassingReasons ==
    { "Overridden as compliant",
      "Pull request demonstrates never-alone code review" }

FailingReasons ==
    { "Overridden as non-compliant",
      "No pull requests in attestation",
      "Pull request has no approvers",
      "The only approver of the PR is also a committer",
      "No attestations found" }

\* The "Attestation is <type>, ..." messages
TemplateReasons ==
    { "Attestation is " \o t \o ", not a pull request or pull-request override" :
        t \in {"None", "audit", "override", "pull_request"} }

\* r has one of the fixed reasons, and passes exactly with the two reasons
\* of a pass
WellFormedReason(r) ==
    /\ r.reason # ""
    /\ r.reason \in PassingReasons \cup FailingReasons \cup TemplateReasons
    /\ r.pass <=> r.reason \in PassingReasons

\* C26: every result returned by evaluate_attestation and every result in
\* the list returned by evaluate_all has a non-empty reason, one of the
\* fixed messages; pass is true exactly with "Overridden as compliant" and
\* "Pull request demonstrates never-alone code review".
C26_FixedReasons ==
    /\ Returned => WellFormedReason(result)
    /\ (pc = "evaluate_all" /\ ~raised) =>
           \A i \in DOMAIN results : WellFormedReason(results[i])

C26_Witness ==
    /\ pc = "evaluate_all"
    /\ ~raised
    /\ Len(results) = 2
    /\ results[1].reason = "No attestations found"
    /\ results[2].pass
    /\ results[2].reason = "Overridden as compliant"

\* C27: nothing is posted before the report request; from the request on,
\* whether it succeeds or fails, the attestation_data posted is the list
\* report_code_review_attestations was given, element for element, which is
\* the list written to the result file and the output of evaluate_all on
\* the fetched data.
C27_ReportedIsOutput ==
    /\ attempts.report = 0 => reported = <<>>
    /\ attempts.report > 0 =>
           /\ reported = <<results>>
           /\ reported = files.output
           /\ reported = <<evaluate_all(data).results>>

C27_Witness ==
    /\ attempts.report = 1
    /\ pending = "SystemExit"
    /\ Len(results) = 2
    /\ results[1].pass
    /\ ~results[2].pass
    /\ reported = <<results>>

\* The report has failed: the file could not be opened, the request failed,
\* or another exception was raised while posting
ReportFailed ==
    failure = "OSError" \/ pending \in {"SystemExit", "raise"}

\* C28: when the report has failed the run ends with exit status 1, and the
\* evidence file and the result file still hold what the run wrote: the
\* fetched data and the results.
C28_ArtifactsRemain ==
    ReportFailed =>
        /\ Exited => exit_status = 1
        /\ files.evidence = <<data>>
        /\ files.output = <<results>>

C28_Witness ==
    /\ Exited
    /\ pending = "raise"
    /\ exit_status = 1
    /\ Len(data) = 1
    /\ files = [evidence |-> <<data>>, output |-> <<results>>]

\* C29: for every attestation_type, "override" and the unrecognised ones
\* included, the result returned contains pr_url if and only if
\* pull_requests is not empty and the url of its first pull request is
\* present and not empty; a pr_url in a result is never empty.
C29_PrUrlAnyType ==
    Returned =>
        /\ "pr_url" \in DOMAIN result
             <=> (PRs # <<>> /\ "url" \in DOMAIN PRs[1] /\ PRs[1].url # "")
        /\ "pr_url" \in DOMAIN result => result.pr_url # ""

C29_Witness ==
    /\ Returned
    /\ TypeText = "override"
    /\ Len(PRs) = 1
    /\ "pr_url" \in DOMAIN result
    /\ result.pr_url = PRs[1].url
    /\ result.reason = "Overridden as non-compliant"

\* The attestation_url evaluate_attestation gives for att
UrlOf(att) == IF "html_url" \in DOMAIN att THEN att.html_url ELSE ""

\* C30: a result returned by evaluate_attestation has the html_url of the
\* attestation as attestation_url, the empty string when html_url is
\* absent, and never null; in the list evaluate_all returns the results
\* with a null attestation_url are exactly the "No attestations found"
\* results of the keys without attestations, and the others carry the
\* html_url of the first attestation of their key.
C30_AttestationUrl ==
    /\ Returned =>
           /\ result.attestation_url = UrlOf(attestation)
           /\ result.attestation_url # "null"
    /\ (pc = "evaluate_all" /\ ~raised) =>
           \A i \in DOMAIN results :
               /\ results[i].attestation_url = "null"
                    <=> results[i].reason = "No attestations found"
               /\ results[i].attestation_url = "null" <=> data[i][2] = <<>>
               /\ data[i][2] # <<>> =>
                      results[i].attestation_url = UrlOf(data[i][2][1])

C30_Witness ==
    /\ pc = "evaluate_all"
    /\ ~raised
    /\ Len(results) = 2
    /\ results[1].attestation_url = "null"
    /\ results[2].attestation_url = "https://example.com/attestation/2"
    /\ ~results[2].pass

====
